---- MODULE Spec2Model ----
(***************************************************************************)
(* Model of src/src/neurips_2019.py: the incremental indexing pipeline     *)
(* (_build_index, _index_event), the index-page cache (_get_index_html),   *)
(* the link extractors and the document builders, over a whoosh index.     *)
(*                                                                         *)
(* Representation.                                                         *)
(*   - A text is a sequence of one-character strings; " " is whitespace    *)
(*     and "\n" the newline that "\n".join puts between fields.            *)
(*   - An HTML page is what the code reads of it: the index page is a      *)
(*     sequence of tokens, each either plain text, whitespace or an        *)
(*     onClick="showDetail(<id>)" attribute; an event page is its three    *)
(*     landmark <div>s (a sequence of length 0 when the landmark is        *)
(*     absent, else of length 1 holding its text) and its sequence of      *)
(*     onClick="showSpeaker('<id>');" attributes; a speaker page is its    *)
(*     <h3>, the <div> after it and its <h4>.                              *)
(*   - A URL is the pair (query name, id) that the URL patterns format.    *)
(*   - The whoosh index is the sequence of committed documents; a writer   *)
(*     is the sequence of documents added and not yet committed.           *)
(***************************************************************************)
EXTENDS Integers, Sequences, FiniteSets, TLC

\* ------------------------------------------------------------- bounds
MaxIndexLen == 2      \* tokens of the index page body
MaxSpeakers == 1      \* showSpeaker attributes of one event page
MaxCap == 2           \* largest --max-events value tried

EventIdStrs == {"1", "2"}
SpeakerIdStrs == {"7", "8"}

\* Sequences over S of length at most n.
SeqsUpTo(S, n) == UNION {[1..k -> S] : k \in 0..n}

\* ------------------------------------------------------------- texts
WS == " "
NL == "\n"

RECURSIVE lstrip(_)
lstrip(s) == IF s # <<>> /\ Head(s) = WS THEN lstrip(Tail(s)) ELSE s

RECURSIVE rstrip(_)
rstrip(s) ==
    IF s # <<>> /\ s[Len(s)] = WS THEN rstrip(SubSeq(s, 1, Len(s) - 1)) ELSE s

\* str.strip()
strip(s) == rstrip(lstrip(s))

\* "\n".join(parts)
RECURSIVE join(_)
join(parts) ==
    IF parts = <<>> THEN <<>>
    ELSE IF Len(parts) = 1 THEN parts[1]
    ELSE parts[1] \o <<NL>> \o join(Tail(parts))

\* ------------------------------------------------------------- URLs
INDEX_URL == [q |-> "Schedule", id |-> ""]

\* EVENT_URL_PATTERN.format(event_id=event_id)
_event_url(event_id) == [q |-> "showEvent", id |-> event_id]

\* SPEAKER_URL_PATTERN.format(speaker_id=speaker_id)
_speaker_url(speaker_id) == [q |-> "showSpeaker", id |-> speaker_id]

\* ------------------------------------------------------------- pages
TextTok == [kind |-> "text", arg |-> "t"]
WsTok == [kind |-> "text", arg |-> WS]
DetailTok(id) == [kind |-> "showDetail", arg |-> id]

IndexToks == {TextTok, WsTok} \cup {DetailTok(id) : id \in EventIdStrs}
IndexBodies == SeqsUpTo(IndexToks, MaxIndexLen)
SpeakerLists == SeqsUpTo(SpeakerIdStrs, MaxSpeakers)

\* resp.text.strip() of a token sequence: whitespace tokens at both ends go.
RECURSIVE lstripToks(_)
lstripToks(s) == IF s # <<>> /\ Head(s) = WsTok THEN lstripToks(Tail(s)) ELSE s

RECURSIVE rstripToks(_)
rstripToks(s) ==
    IF s # <<>> /\ s[Len(s)] = WsTok
    THEN rstripToks(SubSeq(s, 1, Len(s) - 1)) ELSE s

stripToks(s) == rstripToks(lstripToks(s))

\* EVENT_ID_P.findall(s): the ids of the showDetail attributes, in text order.
RECURSIVE _index_event_ids(_)
_index_event_ids(s) ==
    IF s = <<>> THEN <<>>
    ELSE IF Head(s).kind = "showDetail"
         THEN <<Head(s).arg>> \o _index_event_ids(Tail(s))
         ELSE _index_event_ids(Tail(s))

\* The event page the site serves for an id, given its speaker attributes.
\* Event "1" has every landmark (with surrounding whitespace), "2" has none.
EventHtml(id, speakers) ==
    IF id = "1"
    THEN [maincardType |-> << <<WS, "O">> >>,
          maincardBody |-> << <<"T", WS>> >>,
          abstractContainer |-> << <<"a">> >>,
          showSpeaker |-> speakers]
    ELSE [maincardType |-> <<>>,
          maincardBody |-> <<>>,
          abstractContainer |-> <<>>,
          showSpeaker |-> speakers]

\* The speaker page the site serves for an id. Speaker "7" has every
\* landmark, "8" has an <h3> with no <div> after it and no <h4>.
SpeakerHtml(id) ==
    IF id = "7"
    THEN [h3 |-> << <<"N">> >>, h3div |-> << <<WS, "b">> >>, h4 |-> << <<"U">> >>]
    ELSE [h3 |-> << <<"M">> >>, h3div |-> <<>>, h4 |-> <<>>]

\* SPEAKER_ID_P.findall(s)
_speaker_ids(html) == html.showSpeaker

\* ------------------------------------------------------------- parser
_event_title(soup) ==
    IF soup.maincardBody = <<>> THEN <<>> ELSE strip(soup.maincardBody[1])

_event_abstract(soup) ==
    IF soup.abstractContainer = <<>> THEN <<>>
    ELSE strip(soup.abstractContainer[1])

_event_type(soup) ==
    IF soup.maincardType = <<>> THEN <<>> ELSE strip(soup.maincardType[1])

_speaker_name(soup) == IF soup.h3 = <<>> THEN <<>> ELSE strip(soup.h3[1])

_speaker_bio(soup) ==
    IF soup.h3 = <<>> THEN <<>>
    ELSE IF soup.h3div = <<>> THEN <<>>
    ELSE strip(soup.h3div[1])

_speaker_org(soup) == IF soup.h4 = <<>> THEN <<>> ELSE strip(soup.h4[1])

EVENT == <<"e", "v">>
SPEAKER == <<"s", "p">>

\* Plausible slip: the title is joined before the event type.
_event_doc_title_first(url, html) ==
    LET event_type == _event_type(html)
        title == _event_title(html)
        abstract == _event_abstract(html)
        content == join(<<EVENT, title, event_type, abstract>>)
    IN  [url |-> url, type |-> EVENT, title |-> title,
         description |-> abstract, subtype |-> event_type, org |-> <<>>,
         content |-> content]

_event_doc(url, html) ==
    LET event_type == _event_type(html)
        title == _event_title(html)
        abstract == _event_abstract(html)
        content == join(<<EVENT, event_type, title, abstract>>)
    IN  [url |-> url, type |-> EVENT, title |-> title,
         description |-> abstract, subtype |-> event_type, org |-> <<>>,
         content |-> content]

_speaker_doc(url, html) ==
    LET name == _speaker_name(html)
        org == _speaker_org(html)
        bio == _speaker_bio(html)
        content == join(<<SPEAKER, name, org, bio>>)
    IN  [url |-> url, type |-> SPEAKER, subtype |-> <<>>, title |-> name,
         description |-> bio, org |-> org, content |-> content]

\* ------------------------------------------------------------- state
VARIABLES
    siteIndex,      \* body the site serves for INDEX_URL
    siteSpeakers,   \* event id -> showSpeaker ids of the event page served
    cacheFile,      \* cache/index: <<>> when the file is absent, else <<text>>
    dataExists,     \* a whoosh index exists in DATA_DIR
    store,          \* committed documents of the whoosh index, in order
    pc,             \* "idle", "events", "speakers", "done", "capped", "failed"
    max_events,     \* args.max_events: [set |-> FALSE] is None
    existing_urls,  \* snapshot of _read_data_urls at the start of the run
    event_ids,      \* event ids the for loop has not reached yet
    indexed,        \* counter of events indexed by the run
    writer,         \* documents added to the open writer, not yet committed
    speaker_ids,    \* speaker ids of the current event not reached yet
    startStore,     \* history: store when the run started
    written,        \* history: documents passed to add_document by the run
    requests,       \* history: URLs the run asked the network for
    prevRun,        \* history: pc at which the previous run ended
    cacheAtStart    \* history: cacheFile when the run started

vars == <<siteIndex, siteSpeakers, cacheFile, dataExists, store, pc,
          max_events, existing_urls, event_ids, indexed, writer, speaker_ids,
          startStore, written, requests, prevRun, cacheAtStart>>

site == <<siteIndex, siteSpeakers>>
history == <<startStore, written, requests, prevRun, cacheAtStart>>

None == [set |-> FALSE, val |-> 0]
MaxEventsArgs == {None} \cup {[set |-> TRUE, val |-> n] : n \in (-1)..MaxCap}

\* ------------------------------------------------------------- store
\* Plausible slip: the snapshot misses the first document of the index.
_read_data_urls_skip_first(ix) == {ix[i].url : i \in 2..Len(ix)}

\* _read_data_urls(ix): the terms of the url field.
_read_data_urls(ix) == {ix[i].url : i \in 1..Len(ix)}

\* writer.add_document(**doc): whoosh appends; unique=True is only read by
\* update_document, which the program never calls.
add_document(w, doc) == Append(w, doc)

\* Plausible slip: the writer commits whether or not an exception left it.
writer_exit_commits(ix, w, exc) == ix \o w

\* Leaving `with data.writer() as writer`: commit, or cancel on an exception.
writer_exit(ix, w, exc) == IF exc THEN ix ELSE ix \o w

\* _cached(path) followed by `if html:`: the cached text when it is usable.
cache_hit(file) == file # <<>> /\ file[1] # <<>>

\* Plausible slip: > where >= is meant.
cap_reached_gt(m, n) == m.set /\ m.val # 0 /\ n > m.val

\* `args.max_events and indexed >= args.max_events`
cap_reached(m, n) == m.set /\ m.val # 0 /\ n >= m.val

\* ------------------------------------------------------------- actions
Init ==
    /\ siteIndex \in IndexBodies
    /\ siteSpeakers \in [EventIdStrs -> SpeakerLists]
    /\ cacheFile = <<>>
    /\ dataExists = FALSE
    /\ store = <<>>
    /\ pc = "idle"
    /\ max_events = None
    /\ existing_urls = {}
    /\ event_ids = <<>>
    /\ indexed = 0
    /\ writer = <<>>
    /\ speaker_ids = <<>>
    /\ startStore = <<>>
    /\ written = <<>>
    /\ requests = <<>>
    /\ prevRun = "idle"
    /\ cacheAtStart = <<>>

Stopped == pc \in {"idle", "done", "capped", "failed"}

\* main -> _build_index up to the for loop, given the index page text.
BeginLoop(m, html) ==
    /\ max_events' = m
    /\ dataExists' = TRUE
    /\ existing_urls' = _read_data_urls(store)
    /\ indexed' = 0
    /\ event_ids' = _index_event_ids(html)
    /\ pc' = "events"
    /\ writer' = <<>>
    /\ speaker_ids' = <<>>
    /\ startStore' = store
    /\ written' = <<>>
    /\ prevRun' = pc
    /\ cacheAtStart' = cacheFile
    /\ UNCHANGED <<site, store>>

\* _get_index_html finds a usable cached page.
StartCached(m) ==
    /\ Stopped
    /\ cache_hit(cacheFile)
    /\ requests' = <<>>
    /\ UNCHANGED cacheFile
    /\ BeginLoop(m, cacheFile[1])

\* _get_index_html fetches the page (status 200) and caches it.
StartFetchOk(m) ==
    /\ Stopped
    /\ ~cache_hit(cacheFile)
    /\ requests' = <<INDEX_URL>>
    /\ cacheFile' = <<stripToks(siteIndex)>>
    /\ BeginLoop(m, stripToks(siteIndex))

\* _get_index_html fetches the page and _http_get raises SystemExit.
StartFetchFail(m) ==
    /\ Stopped
    /\ ~cache_hit(cacheFile)
    /\ requests' = <<INDEX_URL>>
    /\ max_events' = m
    /\ pc' = "failed"
    /\ existing_urls' = {}
    /\ event_ids' = <<>>
    /\ indexed' = 0
    /\ writer' = <<>>
    /\ speaker_ids' = <<>>
    /\ startStore' = store
    /\ written' = <<>>
    /\ prevRun' = pc
    /\ cacheAtStart' = cacheFile
    /\ UNCHANGED <<site, cacheFile, dataExists, store>>

\* The for loop runs out of event ids.
LoopDone ==
    /\ pc = "events"
    /\ event_ids = <<>>
    /\ pc' = "done"
    /\ UNCHANGED <<site, cacheFile, dataExists, store, max_events,
                   existing_urls, event_ids, indexed, writer, speaker_ids,
                   history>>

\* `if url in existing_urls: ... continue`
SkipEvent ==
    /\ pc = "events"
    /\ event_ids # <<>>
    /\ _event_url(Head(event_ids)) \in existing_urls
    /\ event_ids' = Tail(event_ids)
    /\ UNCHANGED <<site, cacheFile, dataExists, store, pc, max_events,
                   existing_urls, indexed, writer, speaker_ids, history>>

\* _index_event: the writer opens, the event page arrives, its document is added.
FetchEventOk ==
    /\ pc = "events"
    /\ event_ids # <<>>
    /\ _event_url(Head(event_ids)) \notin existing_urls
    /\ LET url == _event_url(Head(event_ids))
           event_html == EventHtml(Head(event_ids), siteSpeakers[Head(event_ids)])
           doc == _event_doc(url, event_html)
       IN  /\ writer' = add_document(<<>>, doc)
           /\ written' = Append(written, doc)
           /\ requests' = Append(requests, url)
           /\ speaker_ids' = _speaker_ids(event_html)
    /\ event_ids' = Tail(event_ids)
    /\ pc' = "speakers"
    /\ UNCHANGED <<site, cacheFile, dataExists, store, max_events,
                   existing_urls, indexed, startStore, prevRun, cacheAtStart>>

\* _index_event: the event page answers with a status other than 200.
FetchEventFail ==
    /\ pc = "events"
    /\ event_ids # <<>>
    /\ _event_url(Head(event_ids)) \notin existing_urls
    /\ requests' = Append(requests, _event_url(Head(event_ids)))
    /\ store' = writer_exit(store, <<>>, TRUE)
    /\ writer' = <<>>
    /\ event_ids' = Tail(event_ids)
    /\ pc' = "failed"
    /\ UNCHANGED <<site, cacheFile, dataExists, max_events, existing_urls,
                   indexed, speaker_ids, startStore, written, prevRun,
                   cacheAtStart>>

\* _index_event: the next speaker page arrives, its document is added.
FetchSpeakerOk ==
    /\ pc = "speakers"
    /\ speaker_ids # <<>>
    /\ LET speaker_url == _speaker_url(Head(speaker_ids))
           doc == _speaker_doc(speaker_url, SpeakerHtml(Head(speaker_ids)))
       IN  /\ writer' = add_document(writer, doc)
           /\ written' = Append(written, doc)
           /\ requests' = Append(requests, speaker_url)
    /\ speaker_ids' = Tail(speaker_ids)
    /\ UNCHANGED <<site, cacheFile, dataExists, store, pc, max_events,
                   existing_urls, event_ids, indexed, startStore, prevRun,
                   cacheAtStart>>

\* _index_event: a speaker page answers with a status other than 200.
FetchSpeakerFail ==
    /\ pc = "speakers"
    /\ speaker_ids # <<>>
    /\ requests' = Append(requests, _speaker_url(Head(speaker_ids)))
    /\ store' = writer_exit(store, writer, TRUE)
    /\ writer' = <<>>
    /\ pc' = "failed"
    /\ UNCHANGED <<site, cacheFile, dataExists, max_events, existing_urls,
                   event_ids, indexed, speaker_ids, startStore, written,
                   prevRun, cacheAtStart>>

\* _index_event returns: the writer commits; then the counter and the cap.
FinishEvent ==
    /\ pc = "speakers"
    /\ speaker_ids = <<>>
    /\ store' = writer_exit(store, writer, FALSE)
    /\ writer' = <<>>
    /\ indexed' = indexed + 1
    /\ pc' = IF cap_reached(max_events, indexed + 1) THEN "capped" ELSE "events"
    /\ UNCHANGED <<site, cacheFile, dataExists, max_events, existing_urls,
                   event_ids, speaker_ids, history>>

Next ==
    \/ \E m \in MaxEventsArgs : StartCached(m)
    \/ \E m \in MaxEventsArgs : StartFetchOk(m)
    \/ \E m \in MaxEventsArgs : StartFetchFail(m)
    \/ LoopDone
    \/ SkipEvent
    \/ FetchEventOk
    \/ FetchEventFail
    \/ FetchSpeakerOk
    \/ FetchSpeakerFail
    \/ FinishEvent

Spec == Init /\ [][Next]_vars

\* Runs in which every fetch answers 200 and the cap, when given, is >= 1.
Caps == {[set |-> TRUE, val |-> n] : n \in 1..MaxCap}

NextLive ==
    \/ \E m \in Caps : StartCached(m)
    \/ \E m \in Caps : StartFetchOk(m)
    \/ LoopDone
    \/ SkipEvent
    \/ FetchEventOk
    \/ FetchSpeakerOk
    \/ FinishEvent

\* The program runs one step after the other, and the user runs it again.
LiveSpec == Init /\ [][NextLive]_vars /\ WF_vars(NextLive)

\* ------------------------------------------------------------- properties
Range(s) == {s[i] : i \in 1..Len(s)}
Urls(s) == {s[i].url : i \in 1..Len(s)}
\* The first n elements of s, or all of s when it has fewer.
FirstN(s, n) == SubSeq(s, 1, IF n < Len(s) THEN n ELSE Len(s))

\* The event ids of the index page the current run iterates over.
RunIds == IF cacheFile = <<>> THEN <<>> ELSE _index_event_ids(cacheFile[1])

\* The entries of the run's id sequence whose URL is not in the snapshot.
RECURSIVE NewEntries(_, _)
NewEntries(ids, snap) ==
    IF ids = <<>> THEN <<>>
    ELSE IF _event_url(Head(ids)) \in snap THEN NewEntries(Tail(ids), snap)
    ELSE <<Head(ids)>> \o NewEntries(Tail(ids), snap)

RECURSIVE SpeakerDocs(_)
SpeakerDocs(ids) ==
    IF ids = <<>> THEN <<>>
    ELSE <<_speaker_doc(_speaker_url(Head(ids)), SpeakerHtml(Head(ids)))>>
         \o SpeakerDocs(Tail(ids))

\* The documents of one event: its own, then one per speaker attribute.
EventUnit(id) ==
    <<_event_doc(_event_url(id), EventHtml(id, siteSpeakers[id]))>>
    \o SpeakerDocs(siteSpeakers[id])

RECURSIVE UnitsOf(_)
UnitsOf(ids) ==
    IF ids = <<>> THEN <<>> ELSE EventUnit(Head(ids)) \o UnitsOf(Tail(ids))

NumEvents(s) == Cardinality({i \in 1..Len(s) : s[i].type = EVENT})

Capped == max_events.set /\ max_events.val > 0
Ended == pc \in {"done", "capped"}

\* C1: a run that follows a run which ended without error by running out of
\* event ids (as every run without a cap does) writes nothing: no document is
\* passed to add_document and the store stays what it was when the run began.
C1_SecondRunWritesNothing ==
    prevRun = "done" => (written = <<>> /\ writer = <<>> /\ store = startStore)

C1_Witness ==
    /\ prevRun = "done"
    /\ pc = "done"
    /\ ~max_events.set
    /\ NumEvents(store) >= 2
    /\ INDEX_URL \notin Range(requests)

\* C2: in a run with a cap N > 0 over an id sequence with more than N entries
\* whose URL is not in the snapshot, the counter never passes N, and once the
\* run has ended it ended by the cap, with exactly the first N such entries
\* indexed: the store is the store at the start followed by the documents of
\* those N events, each event document followed by its speakers' documents.
C2_CapEnforced ==
    (Capped /\ pc # "idle"
        /\ Len(NewEntries(RunIds, existing_urls)) > max_events.val)
    => /\ indexed <= max_events.val
       /\ Ended =>
            /\ pc = "capped"
            /\ indexed = max_events.val
            /\ store = startStore \o
                 UnitsOf(FirstN(NewEntries(RunIds, existing_urls), max_events.val))

C2_Witness ==
    /\ Capped
    /\ pc = "capped"
    /\ Len(NewEntries(RunIds, existing_urls)) > max_events.val
    /\ event_ids # <<>>
    /\ Len(store) >= Len(startStore) + 2

\* C3: each url identifies at most one document of the store.
C3_UrlUnique ==
    \A i, j \in 1..Len(store) : store[i].url = store[j].url => i = j

\* C4: when the run is about to add a speaker document whose url is already
\* in the store or in the open writer, and the speaker page arrives, the
\* write is skipped: the writer holds what it held before.
C4_DuplicateWriteSkipped ==
    [][(/\ pc = "speakers"
        /\ speaker_ids # <<>>
        /\ _speaker_url(Head(speaker_ids)) \in Urls(store) \cup Urls(writer)
        /\ pc' = "speakers")
       => writer' = writer]_vars

\* C5 as stated: after a run aborted on a failed fetch, every document that
\* was passed to add_document before the failing fetch is in the store.
C5_EveryWrittenDocumentRemains ==
    pc = "failed" => \A i \in 1..Len(written) : written[i] \in Range(store)

\* C5 as amended: after a run aborted on a failed fetch, the failing request
\* is the last one the run made (every earlier one produced a document), the
\* store is the store at the start followed by the documents of the events
\* whose unit of work finished, in the order written, and what was written
\* after them is one unfinished unit (an event document, then speaker
\* documents), dropped with the cancelled writer.
C5_CommittedDocumentsRemain ==
    pc = "failed" =>
        LET k == Len(store) - Len(startStore)
            fetched == IF requests # <<>> /\ Head(requests) = INDEX_URL
                       THEN Tail(requests) ELSE requests
        IN  /\ k \in 0..Len(written)
            /\ store = startStore \o FirstN(written, k)
            /\ NumEvents(FirstN(written, k)) = indexed
            /\ writer = <<>>
            /\ k < Len(written) =>
                 /\ written[k + 1].type = EVENT
                 /\ \A j \in (k + 2)..Len(written) : written[j].type = SPEAKER
            /\ IF requests = <<INDEX_URL>> THEN written = <<>>
               ELSE Len(fetched) = Len(written) + 1
            /\ \A j \in 1..Len(written) : fetched[j] = written[j].url

C5_Witness ==
    /\ pc = "failed"
    /\ indexed >= 1
    /\ Len(written) > Len(store) - Len(startStore)
    /\ Len(store) > Len(startStore)

\* C6: a run that starts with the cache file present makes no network
\* request for the index page.
C6_CachedIndexReused ==
    cacheAtStart # <<>> => INDEX_URL \notin Range(requests)

\* C7 as stated: the content of every document built is the join of type,
\* then subtype (event) or org (speaker), then title, then description.
C7_ContentTypeSubtypeOrOrgTitleDescription ==
    \A d \in Range(store) \cup Range(writer) \cup Range(written) :
        d.content = join(<<d.type,
                           IF d.type = EVENT THEN d.subtype ELSE d.org,
                           d.title, d.description>>)

\* C7 as amended: the content of an event document is the newline-join of
\* type, subtype, title, description; that of a speaker document is the
\* newline-join of type, title (the name), org, description.
C7_ContentDerived ==
    \A d \in Range(store) \cup Range(writer) \cup Range(written) :
        /\ d.type \in {EVENT, SPEAKER}
        /\ d.type = EVENT =>
             d.content = join(<<d.type, d.subtype, d.title, d.description>>)
        /\ d.type = SPEAKER =>
             d.content = join(<<d.type, d.title, d.org, d.description>>)

C7_Witness ==
    /\ \E d \in Range(store) : d.type = EVENT /\ d.subtype # <<>> /\ d.title # <<>>
    /\ \E d \in Range(store) : d.type = SPEAKER /\ d.org # <<>> /\ d.title # <<>>
    /\ \E d \in Range(store) : d.type = EVENT /\ d.title = <<>>

\* C8: a run whose max_events is unset, zero or negative ends only once every
\* event id of the sequence was processed, and a run stopped by the cap has a
\* cap N > 0 and a counter equal to N.
C8_CapStopsOnlyWhenPositive ==
    /\ (Ended /\ ~Capped) => event_ids = <<>>
    /\ pc = "capped" => (Capped /\ indexed = max_events.val)

\* C9: whatever the run is doing, and after it aborted, the store holds the
\* documents present at the start of the run followed by all the documents
\* of the events whose unit of work finished, and nothing of the unit in
\* progress or aborted.
C9_PerEventCommit ==
    store = startStore \o
        UnitsOf(FirstN(NewEntries(RunIds, existing_urls), indexed))

C9_Witness ==
    /\ pc = "failed"
    /\ indexed >= 1
    /\ Len(written) > Len(store) - Len(startStore)
    /\ written[Len(written)].type = EVENT
    /\ speaker_ids # <<>>

\* Every event URL of the index page the site serves is in the index ix.
AllIndexed(ix) ==
    \A id \in Range(_index_event_ids(stripToks(siteIndex))) :
        _event_url(id) \in Urls(ix)

\* C10: with every fetch succeeding and a cap N >= 1, a run that has ended
\* has indexed the first entry whose URL was missing from the snapshot (if
\* any); repeated runs reach a state from which every event URL of the index
\* page is in the store for good; and a run that starts in such a state
\* writes nothing.
C10_Progress ==
    /\ [](Ended => \A id \in Range(FirstN(NewEntries(RunIds, existing_urls), 1)) :
                       _event_url(id) \in Urls(store))
    /\ <>[]AllIndexed(store)
    /\ [](AllIndexed(startStore) => (written = <<>> /\ store = startStore))

C10_Witness ==
    /\ AllIndexed(store)
    /\ pc = "capped"
    /\ existing_urls # {}
    /\ NumEvents(store) >= 2
    /\ event_ids = <<>>

====
